---------------------------- MODULE Spec2Model ----------------------------
(***************************************************************************)
(* Model of src/eda_analysis.py: class BankingDelinquencyEDA.              *)
(*                                                                         *)
(* The state is the database table delinquency_prediction (which the code  *)
(* only reads), the object's DataFrame self.df (None, or a table held as   *)
(* named columns, the way pandas holds it) and the outcome of the last     *)
(* method call.  Every public method is one action; a caller may invoke    *)
(* the methods in any order, of which main()'s order (lines 301-341) is    *)
(* one.  A method called on a table that lacks what it reads raises and    *)
(* leaves self.df as it was.                                               *)
(*                                                                         *)
(* Numbers.  The code computes in IEEE-754 doubles.  Here a number is an   *)
(* exact rational <<n, d>> in lowest terms with d > 0; <<0, 0>> is NaN     *)
(* (a missing value) and <<1, 0>> is +infinity.  The arithmetic operators  *)
(* propagate NaN as numpy does.  Rounding error of the doubles is not      *)
(* modelled: every statement below is about exact arithmetic.              *)
(*                                                                         *)
(* Not modelled: the database engine, the rendering and saving of          *)
(* figures, the printed descriptive statistics other than the counts the   *)
(* report and the risk-distribution plot derive from risk_tier, and an     *)
(* empty result set.                                                       *)
(***************************************************************************)
EXTENDS Integers, Sequences, FiniteSets

VARIABLES table, df, out

vars == <<table, df, out>>

\* Largest number of rows of the database table in the model.
MaxRows == 2

-----------------------------------------------------------------------------
(* Numbers *)

NaN == <<0, 0>>
Inf == <<1, 0>>

IsNaN(x) == x[1] = 0 /\ x[2] = 0

Abs(n) == IF n < 0 THEN -n ELSE n

RECURSIVE GCD(_, _)
GCD(a, b) == IF b = 0 THEN a ELSE GCD(b, a % b)

\* n/d in lowest terms, d > 0.
Norm(n, d) == LET g == GCD(Abs(n), d) IN <<n \div g, d \div g>>

LCM(a, b) == (a \div GCD(a, b)) * b

FAdd(x, y) ==
    IF IsNaN(x) \/ IsNaN(y) THEN NaN
    ELSE LET l == LCM(x[2], y[2])
         IN  Norm(x[1] * (l \div x[2]) + y[1] * (l \div y[2]), l)

FSub(x, y) ==
    IF IsNaN(x) \/ IsNaN(y) THEN NaN
    ELSE LET l == LCM(x[2], y[2])
         IN  Norm(x[1] * (l \div x[2]) - y[1] * (l \div y[2]), l)

FMul(x, y) ==
    IF IsNaN(x) \/ IsNaN(y) THEN NaN
    ELSE Norm(x[1] * y[1], x[2] * y[2])

\* The divisors of the source are the non-zero literals 6.0 and 850.0.
FDiv(x, y) ==
    IF IsNaN(x) \/ IsNaN(y) THEN NaN
    ELSE IF y[1] < 0 THEN Norm(-(x[1] * y[2]), x[2] * Abs(y[1]))
    ELSE Norm(x[1] * y[2], x[2] * y[1])

\* x < y on numbers that are not NaN; y may be +infinity.
FLt(x, y) ==
    IF y = Inf THEN x # Inf
    ELSE IF x = Inf THEN FALSE
    ELSE LET l == LCM(x[2], y[2])
         IN  x[1] * (l \div x[2]) < y[1] * (l \div y[2])

FLe(x, y) == ~FLt(y, x)

-----------------------------------------------------------------------------
(* pandas Series and DataFrame operations the code uses *)

\* Series + Series, element by element on the shared index.
SeriesAdd(s, t) == [i \in DOMAIN s |-> FAdd(s[i], t[i])]

\* Series * scalar, Series / scalar and scalar - Series: the scalar is
\* broadcast.
SeriesMul(s, k) == [i \in DOMAIN s |-> FMul(s[i], k)]
SeriesDiv(s, k) == [i \in DOMAIN s |-> FDiv(s[i], k)]
ScalarSub(k, s) == [i \in DOMAIN s |-> FSub(k, s[i])]

\* self.df[c] = s: adds column c or overwrites it; the other columns stay.
SetItem(d, c, s) == [k \in DOMAIN d \cup {c} |-> IF k = c THEN s ELSE d[k]]

\* Mutant: side='right', the intervals closed on the left instead.
SearchSortedRight(bins, x) ==
    Cardinality({j \in DOMAIN bins : FLe(bins[j], x)})

\* bins.searchsorted(x, side='left'): how many edges lie strictly below x.
SearchSortedLeft(bins, x) == Cardinality({j \in DOMAIN bins : FLt(bins[j], x)})

\* Mutant: include_lowest=True, a value on the first edge joins the first bin.
CutValueIncludeLowest(x, bins, labels) ==
    IF IsNaN(x) THEN "NaN"
    ELSE LET ids == IF x = bins[1] THEN 1
                    ELSE Cardinality({j \in DOMAIN bins : FLt(bins[j], x)})
         IN  IF ids = 0 \/ ids = Len(bins) THEN "NaN" ELSE labels[ids]

\* pd.cut(x, bins=[...], labels=[...]) on one value: right-closed intervals,
\* the lowest edge excluded; NaN, a value at or below the first edge and a
\* value above the last edge get no category.
CutValue(x, bins, labels) ==
    IF IsNaN(x) THEN "NaN"
    ELSE LET ids == SearchSortedLeft(bins, x)
         IN  IF ids = 0 \/ ids = Len(bins) THEN "NaN" ELSE labels[ids]

Cut(s, bins, labels) == [i \in DOMAIN s |-> CutValue(s[i], bins, labels)]

\* Series.value_counts() of a categorical: one count per category, missing
\* values dropped.  The order (by count) is not modelled.
ValueCounts(s, categories) ==
    [c \in categories |-> Cardinality({i \in DOMAIN s : s[i] = c})]

RECURSIVE SeriesSum(_)
SeriesSum(s) == IF s = <<>> THEN 0 ELSE s[1] + SeriesSum(Tail(s))

-----------------------------------------------------------------------------
(* The rows the table delinquency_prediction may hold *)

\* The columns of the table that the modelled methods read.  The columns only
\* the figures read (age, employment_status, credit_card_type, location,
\* month_1..month_6) are left out.
RawColumns ==
    {"customer_id", "missed_payments", "credit_utilization", "credit_score",
     "debt_to_income_ratio", "income", "delinquent_account"}

ScoringColumns ==
    {"missed_payments", "credit_utilization", "credit_score",
     "debt_to_income_ratio"}

Rec(mp, cu, cs, dti, inc, del) ==
    [missed_payments |-> mp, credit_utilization |-> cu, credit_score |-> cs,
     debt_to_income_ratio |-> dti, income |-> <<inc, 1>>,
     delinquent_account |-> del]

\* Corners of the conventional ranges: each extreme of missed_payments and
\* of credit_score, with the two ratios both at 0 or both at 1.
BaseRecords ==
    {Rec(<<mp, 1>>, <<r, 1>>, <<cs, 1>>, <<r, 1>>, 50000, 0) :
        mp \in {0, 6}, cs \in {300, 850}, r \in {0, 1}}

\* Scores on and next to the bin edges, inputs outside the conventional
\* ranges, and a missing value in each scoring column.
EdgeRecords ==
    {Rec(<<10, 1>>, <<0, 1>>, <<850, 1>>, <<0, 1>>, 20000, 0),
     Rec(<<5, 1>>, <<1, 1>>, <<850, 1>>, <<1, 1>>, 30000, 1),
     Rec(<<6, 1>>, <<1, 1>>, <<850, 1>>, <<150001, 200000>>, 90000, 1),
     Rec(<<6, 1>>, <<0, 1>>, <<850, 1>>, <<1, 200000>>, 80000, 0),
     Rec(<<10, 1>>, <<1, 1>>, <<680, 1>>, <<1, 1>>, 0, 1),
     Rec(<<10, 1>>, <<1, 1>>, <<300, 1>>, <<1, 1>>, 200000, 1),
     Rec(<<0, 1>>, <<0, 1>>, <<900, 1>>, <<0, 1>>, 150000, 0),
     Rec(NaN, <<1, 1>>, <<300, 1>>, <<1, 1>>, 50000, 1),
     Rec(<<6, 1>>, NaN, <<300, 1>>, <<1, 1>>, 50000, 1),
     Rec(<<6, 1>>, <<1, 1>>, NaN, <<1, 1>>, 50000, 1),
     Rec(<<6, 1>>, <<1, 1>>, <<300, 1>>, NaN, 50000, 1)}

Records == BaseRecords \cup EdgeRecords

\* pd.read_sql: the result set as a DataFrame, one Series per column, rows
\* on the index 1..n; customer_id is the table's key.
ReadSql(rows) ==
    [c \in RawColumns |->
        [i \in DOMAIN rows |->
            IF c = "customer_id" THEN i ELSE rows[i][c]]]

-----------------------------------------------------------------------------
(* The object *)

\* self.df = None
None == <<>>

IsNone(d) == DOMAIN d = {}

NRows(d) == Len(d["customer_id"])

Tiers == {"LOW", "MEDIUM", "HIGH"}

Raised(op) == [op |-> op, status |-> "raised", data |-> <<>>]

Ok(op, data) == [op |-> op, status |-> "ok", data |-> data]

\* __init__
Init ==
    /\ \E n \in 1..MaxRows : table \in [1..n -> Records]
    /\ df = None
    /\ out = Ok("__init__", <<>>)

\* load_data: replaces self.df by the table read, whatever it held.
LoadData ==
    /\ df' = ReadSql(table)
    /\ out' = Ok("load_data", <<Len(table), Cardinality(RawColumns)>>)
    /\ UNCHANGED table

\* Whether the value v of column c is missing.
IsNull(c, v) ==
    IF c \in {"customer_id", "delinquent_account"} THEN FALSE
    ELSE IF c \in {"risk_tier", "income_bracket"} THEN v = "NaN"
    ELSE IsNaN(v)

\* self.df.isnull().sum()
MissingCount(d) ==
    [c \in DOMAIN d |-> Cardinality({i \in DOMAIN d[c] : IsNull(c, d[c][i])})]

\* data_overview: prints; reads self.df only.
DataOverview ==
    /\ out' = IF IsNone(df) THEN Raised("data_overview")
              ELSE Ok("data_overview", MissingCount(df))
    /\ UNCHANGED <<table, df>>

\* Mutant: the count divided by 3.0 instead of 6.0.
MissedTermQuarterly(d) ==
    SeriesMul(
        SeriesDiv(d["missed_payments"], <<3, 1>>), <<3, 10>>)

\* Mutant: the count clipped at 6 before it is weighted.
MissedTermClamped(d) ==
    SeriesMul(
        SeriesDiv(
            [i \in DOMAIN d["missed_payments"] |->
                LET x == d["missed_payments"][i]
                IN  IF ~IsNaN(x) /\ FLt(<<6, 1>>, x) THEN <<6, 1>> ELSE x],
            <<6, 1>>),
        <<3, 10>>)

\* (self.df['missed_payments'] / 6.0) * 0.30
MissedTerm(d) ==
    SeriesMul(
        SeriesDiv(d["missed_payments"], <<6, 1>>), <<3, 10>>)

\* Mutant: a missing utilization filled forward from the row before.
UtilizationTermFfill(d) ==
    SeriesMul(
        [i \in DOMAIN d["credit_utilization"] |->
            IF IsNaN(d["credit_utilization"][i]) /\ i > 1
            THEN d["credit_utilization"][i - 1]
            ELSE d["credit_utilization"][i]],
        <<1, 4>>)

\* self.df['credit_utilization'] * 0.25
UtilizationTerm(d) == SeriesMul(d["credit_utilization"], <<1, 4>>)

\* ((850 - self.df['credit_score']) / 850.0) * 0.25
CreditScoreTerm(d) ==
    SeriesMul(
        SeriesDiv(
            ScalarSub(<<850, 1>>, d["credit_score"]), <<850, 1>>),
        <<1, 4>>)

\* Mutant: a missing ratio taken as 0.
DtiTermFillna(d) ==
    SeriesMul(
        [i \in DOMAIN d["debt_to_income_ratio"] |->
            IF IsNaN(d["debt_to_income_ratio"][i]) THEN <<0, 1>>
            ELSE d["debt_to_income_ratio"][i]],
        <<1, 5>>)

\* self.df['debt_to_income_ratio'] * 0.20
DtiTerm(d) == SeriesMul(d["debt_to_income_ratio"], <<1, 5>>)

\* The sum of the four terms, added left to right on whole columns.
RiskScore(d) ==
    SeriesAdd(
        SeriesAdd(
            SeriesAdd(MissedTerm(d), UtilizationTerm(d)),
            CreditScoreTerm(d)),
        DtiTerm(d))

RiskBins == <<(<<0, 1>>), (<<3, 10>>), (<<7, 10>>), (<<1, 1>>)>>

\* Mutant: the labels listed out of order.
RiskLabelsSwapped == <<"LOW", "HIGH", "MEDIUM">>

RiskLabels == <<"LOW", "MEDIUM", "HIGH">>

\* Risk tier classification, lines 77-81.
RiskTier(s) == Cut(s, RiskBins, RiskLabels)

\* Mutant: missed_payments normalised in place, so the raw column is
\* overwritten by its sixth before the score is taken from it.
ScoredInPlace(d) ==
    LET d0 == SetItem(d, "missed_payments",
                      SeriesDiv(d["missed_payments"], <<6, 1>>))
        rs == SeriesAdd(
                  SeriesAdd(
                      SeriesAdd(
                          SeriesMul(d0["missed_payments"], <<3, 10>>),
                          UtilizationTerm(d0)),
                      CreditScoreTerm(d0)),
                  DtiTerm(d0))
        d1 == SetItem(d0, "risk_score", rs)
    IN  SetItem(d1, "risk_tier", RiskTier(d1["risk_score"]))

\* The body of calculate_risk_score: the table it leaves in self.df.
Scored(d) ==
    LET d1 == SetItem(d, "risk_score", RiskScore(d))
    IN  SetItem(d1, "risk_tier", RiskTier(d1["risk_score"]))

\* calculate_risk_score
CalculateRiskScore ==
    IF IsNone(df)
    THEN /\ out' = Raised("calculate_risk_score")
         /\ UNCHANGED <<table, df>>
    ELSE /\ df' = Scored(df)
         /\ out' = Ok("calculate_risk_score", <<>>)
         /\ UNCHANGED table

HasDerived(d) == {"risk_score", "risk_tier"} \subseteq DOMAIN d

\* plot_risk_distribution: the bars are the counts of risk_tier.
PlotRiskDistribution ==
    /\ out' = IF IsNone(df) \/ ~HasDerived(df)
              THEN Raised("plot_risk_distribution")
              ELSE Ok("plot_risk_distribution",
                      ValueCounts(df["risk_tier"], Tiers))
    /\ UNCHANGED <<table, df>>

\* plot_feature_correlation: reads risk_score among the numeric columns.
PlotFeatureCorrelation ==
    /\ out' = IF IsNone(df) \/ ~HasDerived(df)
              THEN Raised("plot_feature_correlation")
              ELSE Ok("plot_feature_correlation", <<>>)
    /\ UNCHANGED <<table, df>>

\* plot_risk_by_demographics: groups risk_score by raw columns.
PlotRiskByDemographics ==
    /\ out' = IF IsNone(df) \/ ~HasDerived(df)
              THEN Raised("plot_risk_by_demographics")
              ELSE Ok("plot_risk_by_demographics", <<>>)
    /\ UNCHANGED <<table, df>>

\* plot_payment_patterns: reads the monthly columns only.
PlotPaymentPatterns ==
    /\ out' = IF IsNone(df) THEN Raised("plot_payment_patterns")
              ELSE Ok("plot_payment_patterns", <<>>)
    /\ UNCHANGED <<table, df>>

IncomeBins ==
    <<(<<0, 1>>), (<<30000, 1>>), (<<80000, 1>>), (<<150000, 1>>), Inf>>

IncomeLabels == <<"<30K", "30K-80K", "80K-150K", ">150K">>

\* Sections 1 and 2 of the report: the portfolio totals and one line per
\* tier found in the index of risk_tier's value counts.
ReportCounts(d) ==
    [total_customers |-> NRows(d),
     delinquent_count |-> SeriesSum(d["delinquent_account"]),
     risk_dist |-> ValueCounts(d["risk_tier"], Tiers)]

\* Mutant: the income brackets written to risk_tier.
GenerateInsightsReportClobber ==
    IF IsNone(df) \/ ~HasDerived(df)
    THEN /\ out' = Raised("generate_insights_report")
         /\ UNCHANGED <<table, df>>
    ELSE /\ out' = Ok("generate_insights_report", ReportCounts(df))
         /\ df' = SetItem(df, "risk_tier",
                          Cut(df["income"], IncomeBins, IncomeLabels))
         /\ UNCHANGED table

\* generate_insights_report: prints, and adds the column income_bracket.
GenerateInsightsReport ==
    IF IsNone(df) \/ ~HasDerived(df)
    THEN /\ out' = Raised("generate_insights_report")
         /\ UNCHANGED <<table, df>>
    ELSE /\ out' = Ok("generate_insights_report", ReportCounts(df))
         /\ df' = SetItem(df, "income_bracket",
                          Cut(df["income"], IncomeBins, IncomeLabels))
         /\ UNCHANGED table

Next ==
    \/ LoadData
    \/ DataOverview
    \/ CalculateRiskScore
    \/ PlotRiskDistribution
    \/ PlotFeatureCorrelation
    \/ PlotRiskByDemographics
    \/ PlotPaymentPatterns
    \/ GenerateInsightsReport

Spec == Init /\ [][Next]_vars

-----------------------------------------------------------------------------
(* Properties *)

Rows(d) == DOMAIN d["customer_id"]

Zero == <<0, 1>>
One == <<1, 1>>

\* The four scoring fields of row i.
Fields(d, i) == [c \in ScoringColumns |-> d[c][i]]

AllPresent(f) == \A c \in ScoringColumns : ~IsNaN(f[c])

Between(lo, x, hi) == FLe(lo, x) /\ FLe(x, hi)

\* The conventional ranges of the four scoring fields.
InRange(f) ==
    /\ AllPresent(f)
    /\ Between(Zero, f["missed_payments"], <<6, 1>>)
    /\ Between(<<300, 1>>, f["credit_score"], <<850, 1>>)
    /\ Between(Zero, f["credit_utilization"], One)
    /\ Between(Zero, f["debt_to_income_ratio"], One)

\* lo < x <= hi, false of NaN.
InBin(lo, x, hi) == ~IsNaN(x) /\ FLt(lo, x) /\ FLe(x, hi)

\* The score of the fields f in closed form:
\* mp/20 + cu/4 + (850 - cs)/3400 + dti/5.
ClosedForm(f) ==
    FAdd(FAdd(FDiv(f["missed_payments"], <<20, 1>>),
              FDiv(f["credit_utilization"], <<4, 1>>)),
         FAdd(FDiv(FSub(<<850, 1>>, f["credit_score"]), <<3400, 1>>),
              FDiv(f["debt_to_income_ratio"], <<5, 1>>)))

F4(mp, cu, cs, dti) ==
    [missed_payments |-> mp, credit_utilization |-> cu, credit_score |-> cs,
     debt_to_income_ratio |-> dti]

\* missed_payments=6, credit_utilization=1, credit_score=300, dti=1
WorstCase == F4(<<6, 1>>, One, <<300, 1>>, One)

\* missed_payments=10, every other term zero
TenMissed == F4(<<10, 1>>, Zero, <<850, 1>>, Zero)

\* missed_payments=0, credit_utilization=0, credit_score=850, dti=0
AllZero == F4(Zero, Zero, <<850, 1>>, Zero)

\* C1: every record whose four scoring fields lie in their conventional
\* ranges has a risk_score in the closed interval [0, 1].
C1_ScoreInUnitInterval ==
    HasDerived(df) =>
        \A i \in Rows(df) :
            InRange(Fields(df, i)) => Between(Zero, df["risk_score"][i], One)

\* A scored table that holds the best and the worst in-range record.
C1_Witness ==
    /\ HasDerived(df)
    /\ \E i, j \in Rows(df) :
          /\ Fields(df, i) = AllZero /\ df["risk_score"][i] = Zero
          /\ Fields(df, j) = WorstCase /\ df["risk_score"][j] = <<31, 34>>

\* C2: risk_score is the weighted sum of the four fields with no input
\* clamped; the worst in-range record is HIGH, and ten missed payments with
\* every other term zero score exactly 1/2 and are MEDIUM.
C2_FormulaUnclamped ==
    HasDerived(df) =>
        \A i \in Rows(df) :
            LET f == Fields(df, i)
            IN  /\ AllPresent(f) => df["risk_score"][i] = ClosedForm(f)
                /\ f = WorstCase => df["risk_tier"][i] = "HIGH"
                /\ f = TenMissed =>
                      /\ df["risk_score"][i] = <<1, 2>>
                      /\ df["risk_tier"][i] = "MEDIUM"

\* A scored table that holds both named records.
C2_Witness ==
    /\ HasDerived(df)
    /\ \E i, j \in Rows(df) :
          /\ Fields(df, i) = WorstCase /\ df["risk_tier"][i] = "HIGH"
          /\ Fields(df, j) = TenMissed /\ df["risk_tier"][j] = "MEDIUM"

\* C3: the tier is LOW exactly when 0 < score <= 0.30, MEDIUM exactly when
\* 0.30 < score <= 0.70 and HIGH exactly when 0.70 < score <= 1.0.
C3_TierIntervals ==
    HasDerived(df) =>
        \A i \in Rows(df) :
            LET x == df["risk_score"][i]
                t == df["risk_tier"][i]
            IN  /\ t = "LOW" <=> InBin(Zero, x, <<3, 10>>)
                /\ t = "MEDIUM" <=> InBin(<<3, 10>>, x, <<7, 10>>)
                /\ t = "HIGH" <=> InBin(<<7, 10>>, x, One)

\* A scored table with a score of exactly 0.70, which is MEDIUM, and one of
\* 0.700001, which is HIGH.
C3_Witness ==
    /\ HasDerived(df)
    /\ \E i, j \in Rows(df) :
          /\ df["risk_score"][i] = <<7, 10>> /\ df["risk_tier"][i] = "MEDIUM"
          /\ df["risk_score"][j] = <<700001, 1000000>>
          /\ df["risk_tier"][j] = "HIGH"

Rank(t) == IF t = "LOW" THEN 1 ELSE IF t = "MEDIUM" THEN 2 ELSE 3

\* C4: among the rows that are assigned a tier, a row with a score at most
\* another's has a tier ranked at most the other's (LOW < MEDIUM < HIGH), and
\* in every state every row's tier is the one the fixed thresholds give its
\* own score, so equal scores have equal tiers.
C4_TierMonotonic ==
    HasDerived(df) =>
        /\ \A i, j \in Rows(df) :
              LET a == df["risk_score"][i]
                  b == df["risk_score"][j]
              IN  /\ (/\ df["risk_tier"][i] \in Tiers
                       /\ df["risk_tier"][j] \in Tiers
                       /\ FLe(a, b))
                        => Rank(df["risk_tier"][i]) <= Rank(df["risk_tier"][j])
                  /\ a = b => df["risk_tier"][i] = df["risk_tier"][j]
        /\ \A i \in Rows(df) :
              df["risk_tier"][i] =
                  CutValue(df["risk_score"][i], RiskBins, RiskLabels)

\* A scored table with a MEDIUM row and a HIGH row, the MEDIUM one scoring
\* less.
C4_Witness ==
    /\ HasDerived(df)
    /\ \E i, j \in Rows(df) :
          /\ df["risk_tier"][i] = "MEDIUM" /\ df["risk_tier"][j] = "HIGH"
          /\ FLt(df["risk_score"][i], df["risk_score"][j])

\* A call of calculate_risk_score that returned.
CalculateStep == out'.op = "calculate_risk_score" /\ out'.status = "ok"

\* C5: calculate_risk_score on a table that already carries risk_score and
\* risk_tier leaves both columns, and the raw columns, as they were.
C5_Idempotent ==
    [][(CalculateStep /\ HasDerived(df)) => df' = df]_vars

\* calculate_risk_score has run again after the report: the table carries
\* income_bracket, which only a report on a scored table adds.
C5_Witness ==
    /\ out.op = "calculate_risk_score"
    /\ HasDerived(df)
    /\ "income_bracket" \in DOMAIN df
    /\ \E i \in Rows(df) : df["risk_tier"][i] \in Tiers

\* C6: a row whose score is <= 0 or > 1.0 has no tier.
C6_OutOfBinsNoTier ==
    HasDerived(df) =>
        \A i \in Rows(df) :
            LET x == df["risk_score"][i]
            IN  (~IsNaN(x) /\ (FLe(x, Zero) \/ FLt(One, x)))
                    => df["risk_tier"][i] = "NaN"

\* A scored table with the all-zero record (score 0) and a row scoring
\* above 1, neither of them tiered.
C6_Witness ==
    /\ HasDerived(df)
    /\ \E i, j \in Rows(df) :
          /\ Fields(df, i) = AllZero
          /\ df["risk_score"][i] = Zero /\ df["risk_tier"][i] = "NaN"
          /\ ~IsNaN(df["risk_score"][j])
          /\ FLt(One, df["risk_score"][j]) /\ df["risk_tier"][j] = "NaN"

RECURSIVE SumOver(_, _)
SumOver(f, S) ==
    IF S = {} THEN 0
    ELSE LET x == CHOOSE y \in S : TRUE IN f[x] + SumOver(f, S \ {x})

\* C7: every row is accounted for in the tier outputs: the report's tier
\* counts add up to its total number of customers, and the bars of the
\* risk-distribution plot add up to the number of rows.  (Neither output
\* carries any entry for unclassified rows that could make up a difference.)
C7_AllRowsAccounted ==
    /\ (out.op = "generate_insights_report" /\ out.status = "ok")
          => SumOver(out.data.risk_dist, Tiers) = out.data.total_customers
    /\ (out.op = "plot_risk_distribution" /\ out.status = "ok")
          => SumOver(out.data, Tiers) = NRows(df)

\* The columns of the one-row table that holds row i of the table alone.
Alone(d, i) == [c \in RawColumns |-> <<d[c][i]>>]

\* C8: a row with a missing scoring field has an undefined score and no
\* tier; calculate_risk_score returns all the same on any loaded table; and
\* every complete row has the values it has in a table of its own.
C8_MissingFieldPropagates ==
    /\ HasDerived(df) =>
          \A i \in Rows(df) :
              IF AllPresent(Fields(df, i))
              THEN /\ df["risk_score"][i] = Scored(Alone(df, i))["risk_score"][1]
                   /\ df["risk_tier"][i] = Scored(Alone(df, i))["risk_tier"][1]
                   /\ ~IsNaN(df["risk_score"][i])
              ELSE /\ IsNaN(df["risk_score"][i])
                   /\ df["risk_tier"][i] = "NaN"
    /\ (out.op = "calculate_risk_score" /\ ~IsNone(df)) => out.status = "ok"

\* calculate_risk_score returned on a table with a row that lacks a field
\* and a complete row that is tiered.
C8_Witness ==
    /\ out.op = "calculate_risk_score" /\ out.status = "ok"
    /\ \E i, j \in Rows(df) :
          /\ ~AllPresent(Fields(df, i)) /\ IsNaN(df["risk_score"][i])
          /\ AllPresent(Fields(df, j)) /\ df["risk_tier"][j] \in Tiers

\* C9: calculate_risk_score only adds the two derived columns: the raw
\* columns (hence the number, order and customer_id of the rows) stay, and
\* row i's derived values are those it has in a table of its own.
C9_RowIndependentFrame ==
    [][CalculateStep =>
        /\ DOMAIN df' = DOMAIN df \cup {"risk_score", "risk_tier"}
        /\ \A c \in DOMAIN df \ {"risk_score", "risk_tier"} : df'[c] = df[c]
        /\ \A i \in Rows(df') :
              /\ df'["risk_score"][i] =
                    Scored(Alone(df', i))["risk_score"][1]
              /\ df'["risk_tier"][i] =
                    Scored(Alone(df', i))["risk_tier"][1]]_vars

\* calculate_risk_score returned on a table of two rows that differ in
\* their scores.
C9_Witness ==
    /\ out.op = "calculate_risk_score" /\ out.status = "ok"
    /\ NRows(df) = 2
    /\ df["customer_id"] = <<1, 2>>
    /\ df["risk_score"][1] # df["risk_score"][2]

Consumers ==
    {"data_overview", "plot_risk_distribution", "plot_feature_correlation",
     "plot_risk_by_demographics", "plot_payment_patterns",
     "generate_insights_report"}

Derived(d) == IF HasDerived(d) THEN <<d["risk_score"], d["risk_tier"]>> ELSE <<>>

\* C10: a consumer operation leaves risk_score and risk_tier as they were;
\* only calculate_risk_score and load_data change them; and whenever the
\* table carries them, every row's score is the formula of its raw fields
\* and its tier the bucketing of its score.
C10_DerivedStable ==
    [][/\ out'.op \in Consumers => Derived(df') = Derived(df)
       /\ Derived(df') # Derived(df)
             => out'.op \in {"calculate_risk_score", "load_data"}
       /\ HasDerived(df') =>
             \A i \in Rows(df') :
                 /\ df'["risk_score"][i] = ClosedForm(Fields(df', i))
                 /\ df'["risk_tier"][i] =
                       CutValue(df'["risk_score"][i], RiskBins, RiskLabels)]_vars

\* A consumer has run on the scored table after the report added
\* income_bracket to it.
C10_Witness ==
    /\ out.op = "plot_risk_distribution" /\ out.status = "ok"
    /\ "income_bracket" \in DOMAIN df
    /\ \E i \in Rows(df) : df["risk_tier"][i] \in Tiers

=============================================================================
